---------------------------- MODULE Spec2Model ----------------------------
(***************************************************************************)
(* Model of the paste-aware line-editing widget of letta-code              *)
(* (src/src/cli/components/PasteAwareTextInput.tsx).                       *)
(*                                                                         *)
(* A text is a sequence of UTF-16 code units (naturals), so that the       *)
(* code's tests on character codes (code >= 32, code = 127, /\s/) are the  *)
(* tests the model makes.  Offsets are 0-based as in the source; the       *)
(* sequence index of offset i is i + 1.                                    *)
(***************************************************************************)
EXTENDS Integers, Sequences, FiniteSets, TLC

VARIABLES
    valueRef,             \* valueRef.current: the authoritative buffer text
    caretOffsetRef,       \* caretOffsetRef.current: the cursor offset
    lastEmittedValueRef,  \* lastEmittedValueRef.current
    value,                \* the value prop of the latest render
    cursorPosition,       \* the cursorPosition prop of the latest render
    displayValue,         \* the displayValue state of the latest render
    pasteRegistry,        \* the paste registry: entry i is the text stored under id i
    out,                  \* callbacks fired by the latest event, in call order
    emitted,              \* the values passed to onChange so far (recorded by SpecEcho)
    typed,                \* the characters typed so far (recorded by SpecType)
    uncaught,             \* the call whose exception left the key handler, or "none"
    mounted,              \* whether the component is mounted
    focus,                \* the focus prop of the latest render
    listeners,            \* the raw listeners on the "input" event: each is the
                          \* focus its closure captured
    ev,                   \* the latest event and the state it was handled in
    selector              \* the model selector: its state, its refs, the loads in
                          \* flight and its latest event

vars == <<valueRef, caretOffsetRef, lastEmittedValueRef, value, cursorPosition,
          displayValue, pasteRegistry, out, emitted, typed, uncaught, mounted,
          focus, listeners, ev, selector>>

----------------------------------------------------------------------------
(* Bounds of the model *)

\* typing and pasting are enabled while the buffer is shorter than this
MaxLen == 2
\* longest initial value prop of the word-motion specification
WordMaxLen == 3
\* number of characters typed in the typing specification
MaxTyped == 4
\* number of distinct values emitted in the echo specification
MaxEmitted == 3

(* Program constants *)

\* handleInsert: text.length > 500
PasteCharThreshold == 500
\* handleInsert: lines > 5
PasteLineThreshold == 5
\* handleInsert: isPaste || text.length > 5
LargeInsertThreshold == 5

(* Code units *)
BS == 8
LF == 10
CR == 13
CtrlW == 23
ESC == 27
DEL == 127
NewlineGlyph == 8629

\* typeof cursorPosition === "number" is false: the prop is not supplied.
\* Supplied offsets are naturals.
Undefined == -1

Max(a, b) == IF a >= b THEN a ELSE b
Min(a, b) == IF a <= b THEN a ELSE b

----------------------------------------------------------------------------
(* JavaScript string primitives *)

\* String.prototype.slice(start, end) with its treatment of negative and
\* out-of-range indices
Slice(s, start, end) ==
    LET n    == Len(s)
        from == IF start < 0 THEN Max(n + start, 0) ELSE Min(start, n)
        to   == IF end < 0 THEN Max(n + end, 0) ELSE Min(end, n)
    IN  IF from >= to THEN <<>> ELSE SubSeq(s, from + 1, to)

\* String.prototype.slice(start)
SliceFrom(s, start) == Slice(s, start, Len(s))

\* the code units matched by the regular expression class \s
WhitespaceCodes ==
    {9, 10, 11, 12, 13, 32, 160, 5760, 8232, 8233, 8239, 8287, 12288, 65279}
        \cup (8192 .. 8202)

\* /\s/.test(text.charAt(pos)): charAt is "" outside the string, which
\* matches neither \s nor \S
IsSpaceAt(text, pos) ==
    pos >= 0 /\ pos < Len(text) /\ text[pos + 1] \in WhitespaceCodes

\* /\S/.test(text.charAt(pos))
IsNonSpaceAt(text, pos) ==
    pos >= 0 /\ pos < Len(text) /\ text[pos + 1] \notin WhitespaceCodes

\* String(n) for a natural n
RECURSIVE ToDigits(_)
ToDigits(n) ==
    IF n < 10 THEN <<48 + n>> ELSE ToDigits(n \div 10) \o <<48 + (n % 10)>>

----------------------------------------------------------------------------
(* Pure helpers of the component *)

\* the matches of /\r\n|\r|\n/g start at every CR and at every LF that does
\* not follow a CR
LineBreakStarts(text) ==
    {i \in 1..Len(text) :
        \/ text[i] = CR
        \/ text[i] = LF /\ ~(i > 1 /\ text[i - 1] = CR)}

countLines(text) == Cardinality(LineBreakStarts(text)) + 1

\* text.replace(/\r\n|\r|\n/g, glyph): the LF of a CR LF pair disappears,
\* every other line break character becomes the glyph
sanitizeForDisplay(text) ==
    LET Dropped == -1
        marked  == [i \in 1..Len(text) |->
                        IF text[i] = LF /\ i > 1 /\ text[i - 1] = CR THEN Dropped
                        ELSE IF text[i] \in {CR, LF} THEN NewlineGlyph
                        ELSE text[i]]
    IN  SelectSeq(marked, LAMBDA c : c # Dropped)

RECURSIVE SkipBack(_, _, _)
\* while (pos > 0 && <class>.test(text.charAt(pos))) pos--
SkipBack(text, pos, space) ==
    IF pos > 0 /\ (IF space THEN IsSpaceAt(text, pos) ELSE IsNonSpaceAt(text, pos))
    THEN SkipBack(text, pos - 1, space)
    ELSE pos

RECURSIVE SkipForward(_, _, _)
\* while (pos < text.length && <class>.test(text.charAt(pos))) pos++
SkipForward(text, pos, space) ==
    IF pos < Len(text) /\ (IF space THEN IsSpaceAt(text, pos) ELSE IsNonSpaceAt(text, pos))
    THEN SkipForward(text, pos + 1, space)
    ELSE pos

findPreviousWordBoundary(text, cursorPos) ==
    IF cursorPos = 0 THEN 0
    ELSE LET p1 == SkipBack(text, cursorPos - 1, TRUE)
             p2 == SkipBack(text, p1, FALSE)
             p3 == IF p2 > 0 /\ IsSpaceAt(text, p2) THEN p2 + 1 ELSE p2
         IN  Max(0, p3)

\* a findNextWordBoundary that forgets to skip the whitespace after the word
findNextWordBoundaryNoSpaceSkip(text, cursorPos) ==
    IF cursorPos >= Len(text) THEN Len(text)
    ELSE SkipForward(text, cursorPos, FALSE)

findNextWordBoundary(text, cursorPos) ==
    IF cursorPos >= Len(text) THEN Len(text)
    ELSE SkipForward(text, SkipForward(text, cursorPos, FALSE), TRUE)


\* OPTION_LEFT_PATTERN / OPTION_RIGHT_PATTERN with the final letter given:
\* ESC [ (1;)? (3|4|7|8|9) <final>
MatchesOptionPattern(sequence, final) ==
    \E d \in {51, 52, 55, 56, 57} :
        \/ sequence = <<ESC, 91, d, final>>
        \/ sequence = <<ESC, 91, 49, 59, d, final>>

detectOptionWordDirection(sequence) ==
    IF Len(sequence) = 0 \/ sequence[1] # ESC THEN "none"
    ELSE IF sequence = <<ESC, 98>> \/ sequence = <<ESC, 66>> THEN "left"
    ELSE IF sequence = <<ESC, 102>> \/ sequence = <<ESC, 70>> THEN "right"
    ELSE IF MatchesOptionPattern(sequence, 68) THEN "left"
    ELSE IF MatchesOptionPattern(sequence, 67) THEN "right"
    ELSE "none"

----------------------------------------------------------------------------
(* External collaborators (src/cli/helpers/clipboard, pasteRegistry) *)

\* a pasted file path that names an image, and the token the translator
\* puts in its place
ImagePathPayload == <<47, 105, 46, 112, 110, 103>>
ImageToken == <<91, 73, 109, 97, 103, 101, 32, 35, 49, 93>>

\* translate(rawPasteText) -> text, idempotent
translatePasteForImages(text) ==
    IF text = ImagePathPayload THEN ImageToken ELSE text

\* allocate(fullText) -> id: ids are 1, 2, ... in allocation order
allocatePaste(registry, fullText) ==
    [registry |-> Append(registry, fullText), id |-> Len(registry) + 1]

----------------------------------------------------------------------------
(* The component's closures, as functions of the refs they read and write. *)
(* A state s is a record of the refs, the registry and the callbacks fired. *)

Cur ==
    [valueRef            |-> valueRef,
     caretOffsetRef      |-> caretOffsetRef,
     lastEmittedValueRef |-> lastEmittedValueRef,
     pasteRegistry       |-> pasteRegistry,
     out                 |-> <<>>]

\* a callback call: its argument, and lastEmittedValueRef.current at the call
OnChange(s, v) ==
    [cb |-> "onChange", text |-> v, pos |-> 0, last |-> s.lastEmittedValueRef]
OnSubmit(s, v) ==
    [cb |-> "onSubmit", text |-> v, pos |-> 0, last |-> s.lastEmittedValueRef]
OnCursorMove(s, p) ==
    [cb |-> "onCursorMove", text |-> <<>>, pos |-> p, last |-> s.lastEmittedValueRef]

updateCursor(s, newPos) ==
    LET clamped == Max(0, Min(newPos, Len(s.valueRef)))
    IN  [s EXCEPT !.caretOffsetRef = clamped,
                  !.out = Append(@, OnCursorMove(s, clamped))]

\* an updateValue that calls onChange before it records the emitted value
updateValueNotifyFirst(s, newValue, newCursor) ==
    updateCursor([s EXCEPT !.valueRef = newValue,
                           !.lastEmittedValueRef = newValue,
                           !.out = Append(@, OnChange(s, newValue))],
                 newCursor)

updateValue(s, newValue, newCursor) ==
    LET refs == [s EXCEPT !.valueRef = newValue,
                          !.lastEmittedValueRef = newValue]
    IN  updateCursor([refs EXCEPT !.out = Append(@, OnChange(refs, newValue))],
                     newCursor)

\* a deleteCharacter that ignores its argument and always deletes backward
deleteCharacterAlwaysBackward(s, forward) ==
    LET current == s.valueRef
        pos     == s.caretOffsetRef
    IN  IF pos > 0
        THEN updateValue(s, Slice(current, 0, pos - 1) \o SliceFrom(current, pos), pos - 1)
        ELSE s

deleteCharacter(s, forward) ==
    LET current == s.valueRef
        pos     == s.caretOffsetRef
    IN  IF forward
        THEN IF pos < Len(current)
             THEN updateValue(s, Slice(current, 0, pos) \o SliceFrom(current, pos + 1), pos)
             ELSE s
        ELSE IF pos > 0
             THEN updateValue(s, Slice(current, 0, pos - 1) \o SliceFrom(current, pos), pos - 1)
             ELSE s

\* `[Pasted text #${pasteId} +${lines} lines]`
PlaceholderToken(pasteId, lines) ==
    <<91, 80, 97, 115, 116, 101, 100, 32, 116, 101, 120, 116, 32, 35>>
        \o ToDigits(pasteId) \o <<32, 43>> \o ToDigits(lines)
        \o <<32, 108, 105, 110, 101, 115, 93>>

\* a handleInsert whose size test was written with && instead of ||
handleInsertBothThresholds(s, text, isPaste) ==
    LET current    == s.valueRef
        pos        == s.caretOffsetRef
        isLarge    == isPaste \/ Len(text) > LargeInsertThreshold
        translated == translatePasteForImages(text)
        lines      == countLines(translated)
        complex    == isLarge /\ (Len(text) > PasteCharThreshold /\ lines > PasteLineThreshold)
        alloc      == allocatePaste(s.pasteRegistry, translated)
        insertion  == IF complex THEN PlaceholderToken(alloc.id, lines)
                      ELSE IF isLarge THEN sanitizeForDisplay(translated)
                      ELSE sanitizeForDisplay(text)
        s1         == IF complex THEN [s EXCEPT !.pasteRegistry = alloc.registry] ELSE s
    IN  updateValue(s1, Slice(current, 0, pos) \o insertion \o SliceFrom(current, pos),
                    pos + Len(insertion))

handleInsert(s, text, isPaste) ==
    LET current    == s.valueRef
        pos        == s.caretOffsetRef
        isLarge    == isPaste \/ Len(text) > LargeInsertThreshold
        translated == translatePasteForImages(text)
        lines      == countLines(translated)
        complex    == isLarge /\ (Len(text) > PasteCharThreshold \/ lines > PasteLineThreshold)
        alloc      == allocatePaste(s.pasteRegistry, translated)
        insertion  == IF complex THEN PlaceholderToken(alloc.id, lines)
                      ELSE IF isLarge THEN sanitizeForDisplay(translated)
                      ELSE sanitizeForDisplay(text)
        s1         == IF complex THEN [s EXCEPT !.pasteRegistry = alloc.registry] ELSE s
    IN  updateValue(s1, Slice(current, 0, pos) \o insertion \o SliceFrom(current, pos),
                    pos + Len(insertion))

----------------------------------------------------------------------------
(* The main input handler (the callback given to useInput).  A key is the  *)
(* set of the flags that are true in Ink's key descriptor.                 *)

RECURSIVE BatchLoopNoAdvance(_, _, _)
\* a loop that inserts a printable character without advancing nextPos
BatchLoopNoAdvance(input, i, b) ==
    IF i > Len(input) THEN b
    ELSE LET code == input[i]
         IN  IF code = DEL \/ code = BS
             THEN BatchLoopNoAdvance(input, i + 1,
                    [nextValue |-> IF b.nextPos > 0
                                   THEN Slice(b.nextValue, 0, b.nextPos - 1)
                                            \o SliceFrom(b.nextValue, b.nextPos)
                                   ELSE b.nextValue,
                     nextPos   |-> IF b.nextPos > 0 THEN b.nextPos - 1 ELSE b.nextPos,
                     processed |-> TRUE])
             ELSE IF code >= 32
             THEN BatchLoopNoAdvance(input, i + 1,
                    [nextValue |-> Slice(b.nextValue, 0, b.nextPos) \o <<code>>
                                        \o SliceFrom(b.nextValue, b.nextPos),
                     nextPos   |-> b.nextPos,
                     processed |-> TRUE])
             ELSE BatchLoopNoAdvance(input, i + 1, b)

RECURSIVE BatchLoopPrintableFirst(_, _, _)
\* a loop that tests code >= 32 first, so that DEL (127) is inserted
BatchLoopPrintableFirst(input, i, b) ==
    IF i > Len(input) THEN b
    ELSE LET code == input[i]
         IN  IF code >= 32
             THEN BatchLoopPrintableFirst(input, i + 1,
                    [nextValue |-> Slice(b.nextValue, 0, b.nextPos) \o <<code>>
                                        \o SliceFrom(b.nextValue, b.nextPos),
                     nextPos   |-> b.nextPos + 1,
                     processed |-> TRUE])
             ELSE IF code = BS
             THEN BatchLoopPrintableFirst(input, i + 1,
                    [nextValue |-> IF b.nextPos > 0
                                   THEN Slice(b.nextValue, 0, b.nextPos - 1)
                                            \o SliceFrom(b.nextValue, b.nextPos)
                                   ELSE b.nextValue,
                     nextPos   |-> IF b.nextPos > 0 THEN b.nextPos - 1 ELSE b.nextPos,
                     processed |-> TRUE])
             ELSE BatchLoopPrintableFirst(input, i + 1, b)

RECURSIVE BatchLoop(_, _, _)
\* the for loop over the code units of the input, from index i on; b is
\* [nextValue, nextPos, processed]
BatchLoop(input, i, b) ==
    IF i > Len(input) THEN b
    ELSE LET code == input[i]
         IN  IF code = DEL \/ code = BS
             THEN BatchLoop(input, i + 1,
                    [nextValue |-> IF b.nextPos > 0
                                   THEN Slice(b.nextValue, 0, b.nextPos - 1)
                                            \o SliceFrom(b.nextValue, b.nextPos)
                                   ELSE b.nextValue,
                     nextPos   |-> IF b.nextPos > 0 THEN b.nextPos - 1 ELSE b.nextPos,
                     processed |-> TRUE])
             ELSE IF code >= 32
             THEN BatchLoop(input, i + 1,
                    [nextValue |-> Slice(b.nextValue, 0, b.nextPos) \o <<code>>
                                        \o SliceFrom(b.nextValue, b.nextPos),
                     nextPos   |-> b.nextPos + 1,
                     processed |-> TRUE])
             ELSE BatchLoop(input, i + 1, b)

\* an IME step that deletes the character at the cursor instead of the one
\* before it
ImeBackspaceForward(s, input, key) ==
    LET hasRawBackspace == \E i \in 1..Len(input) : input[i] \in {BS, DEL}
        nextValue == s.valueRef
        nextPos   == s.caretOffsetRef
    IN  IF "backspace" \in key /\ ~hasRawBackspace /\ nextPos > 0
        THEN [nextValue |-> Slice(nextValue, 0, nextPos) \o SliceFrom(nextValue, nextPos + 1),
              nextPos   |-> nextPos,
              processed |-> TRUE]
        ELSE [nextValue |-> nextValue, nextPos |-> nextPos, processed |-> FALSE]

\* the Unikey/IME heuristic: a backspace flag without a raw backspace code
\* in the input deletes before the cursor first
ImeBackspace(s, input, key) ==
    LET hasRawBackspace == \E i \in 1..Len(input) : input[i] \in {BS, DEL}
        nextValue == s.valueRef
        nextPos   == s.caretOffsetRef
    IN  IF "backspace" \in key /\ ~hasRawBackspace /\ nextPos > 0
        THEN [nextValue |-> Slice(nextValue, 0, nextPos - 1) \o SliceFrom(nextValue, nextPos),
              nextPos   |-> nextPos - 1,
              processed |-> TRUE]
        ELSE [nextValue |-> nextValue, nextPos |-> nextPos, processed |-> FALSE]

\* step 4 of the handler; processed tells whether it returned
BatchStream(s, input, key) ==
    IF Len(input) > 0 THEN BatchLoop(input, 1, ImeBackspace(s, input, key))
    ELSE [nextValue |-> s.valueRef, nextPos |-> s.caretOffsetRef, processed |-> FALSE]

IsPasteShortcut(input, key) ==
    \/ "meta" \in key /\ (input = <<118>> \/ input = <<86>>)
    \/ "ctrl" \in key /\ "shift" \in key /\ (input = <<118>> \/ input = <<86>>)

\* a modifier test that knows ctrl only
IgnoresCtrlOnly(key) == "ctrl" \in key

\* if (key.ctrl || key.meta) return
IgnoresModifiers(key) == "ctrl" \in key \/ "meta" \in key

\* clip is what tryImportClipboardImageMac() returns (<<>> for null);
\* shown is the displayValue of the render the handler closes over
useInputHandler(s, input, key, clip, shown) ==
    LET translated0 == translatePasteForImages(input)
        translated  == IF Len(translated0) = 0 /\ Len(input) = 0 /\ Len(clip) > 0
                       THEN clip ELSE translated0
        b           == BatchStream(s, input, key)
    IN  IF "isPasted" \in key /\ Len(translated) > 0
            THEN handleInsert(s, translated, TRUE)
        ELSE IF IsPasteShortcut(input, key) /\ Len(clip) > 0
            THEN handleInsert(s, clip, TRUE)
        ELSE IF "return" \in key
            THEN [s EXCEPT !.out = Append(@, OnSubmit(s, shown))]
        ELSE IF "leftArrow" \in key
            THEN updateCursor(s, s.caretOffsetRef - 1)
        ELSE IF "rightArrow" \in key
            THEN updateCursor(s, s.caretOffsetRef + 1)
        ELSE IF IgnoresModifiers(key)
            THEN s
        ELSE IF b.processed
            THEN updateValue(s, b.nextValue, b.nextPos)
        ELSE IF "backspace" \in key
            THEN deleteCharacter(s, FALSE)
        ELSE IF "delete" \in key
            THEN deleteCharacter(s, TRUE)
        ELSE s

\* the calls of the key handler that can fail: translatePasteForImages
\* throws, allocatePaste throws
Faults == {"translate", "allocate"}

\* whether handleInsert reaches the failing call: translatePasteForImages
\* is called for a large insertion, allocatePaste for a complex one
handleInsertThrows(text, isPaste, fault) ==
    LET isLarge    == isPaste \/ Len(text) > LargeInsertThreshold
        translated == translatePasteForImages(text)
        lines      == countLines(translated)
        complex    == isLarge /\ (Len(text) > PasteCharThreshold \/ lines > PasteLineThreshold)
    IN  \/ isLarge /\ fault = "translate"
        \/ complex /\ fault = "allocate"

\* whether the key handler reaches the failing call.  No statement of the
\* handler is inside a try block, so the exception then leaves the handler.
useInputHandlerThrows(input, key, clip, fault) ==
    LET translated0 == translatePasteForImages(input)
        translated  == IF Len(translated0) = 0 /\ Len(input) = 0 /\ Len(clip) > 0
                       THEN clip ELSE translated0
    IN  IF "isPasted" \in key /\ fault = "translate"
            THEN TRUE
        ELSE IF "isPasted" \in key /\ Len(translated) > 0
            THEN handleInsertThrows(translated, TRUE, fault)
        ELSE IF IsPasteShortcut(input, key) /\ Len(clip) > 0
            THEN handleInsertThrows(clip, TRUE, fault)
        ELSE FALSE

----------------------------------------------------------------------------
(* The raw input listener (prepended to the "input" event of stdin) *)

moveCursorToPreviousWord(s) ==
    updateCursor(s, findPreviousWordBoundary(s.valueRef, s.caretOffsetRef))

moveCursorToNextWord(s) ==
    updateCursor(s, findNextWordBoundary(s.valueRef, s.caretOffsetRef))

deletePreviousWord(s) ==
    LET curPos    == s.caretOffsetRef
        wordStart == findPreviousWordBoundary(s.valueRef, curPos)
    IN  IF wordStart = curPos THEN s
        ELSE updateValue(s, Slice(s.valueRef, 0, wordStart) \o SliceFrom(s.valueRef, curPos),
                         wordStart)

\* sequence.split(ESC)[i] for i >= 1, with the ESC put back in front: the
\* part that starts at the ESC at index e and ends before the next ESC
EscPartAt(sequence, e) ==
    LET later == {j \in (e + 1)..Len(sequence) : sequence[j] = ESC}
        stop  == IF later = {} THEN Len(sequence) + 1
                 ELSE CHOOSE j \in later : \A k \in later : j <= k
    IN  <<ESC>> \o SubSeq(sequence, e + 1, stop - 1)

\* the direction of the first part that detectOptionWordDirection recognises
FirstDirection(sequence) ==
    LET hits == {e \in 1..Len(sequence) :
                    /\ sequence[e] = ESC
                    /\ detectOptionWordDirection(EscPartAt(sequence, e)) # "none"}
    IN  IF hits = {} THEN "none"
        ELSE detectOptionWordDirection(
                EscPartAt(sequence, CHOOSE e \in hits : \A k \in hits : e <= k))

\* handleRawInput with focus = true and a non-empty string payload
handleRawInput(s, sequence) ==
    IF Len(sequence) = 0 THEN s
    ELSE IF sequence = <<DEL>> \/ sequence = <<BS>> THEN deleteCharacter(s, FALSE)
    ELSE IF sequence \in {<<ESC, DEL>>, <<ESC, BS>>, <<CtrlW>>} THEN deletePreviousWord(s)
    ELSE IF Len(sequence) <= 32 /\ (\E i \in 1..Len(sequence) : sequence[i] = ESC)
    THEN LET dir == FirstDirection(sequence)
         IN  IF dir = "left" THEN moveCursorToPreviousWord(s)
             ELSE IF dir = "right" THEN moveCursorToNextWord(s)
             ELSE s
    ELSE s

----------------------------------------------------------------------------
(* The effects run by a render with new props *)

\* useEffect(..., [value]): runs when the value prop differs from the one
\* of the previous render
valueEffect(s, v) ==
    IF v # s.lastEmittedValueRef
    THEN [s EXCEPT !.valueRef = v, !.caretOffsetRef = Len(v)]
    ELSE s

\* useEffect(..., [cursorPosition])
cursorPositionEffect(s, cp) ==
    IF cp # Undefined THEN [s EXCEPT !.caretOffsetRef = cp] ELSE s

\* a render of the owner with props v and cp: the effects whose dependency
\* changed run in declaration order
renderWithProps(s, v, cp) ==
    LET s1 == IF v # value THEN valueEffect(s, v) ELSE s
    IN  IF cp # cursorPosition THEN cursorPositionEffect(s1, cp) ELSE s1

----------------------------------------------------------------------------
(* The model selector.  A handle is a number and the id of a model is its  *)
(* handle; the model table lists the handles 1..NumModels in order, and a  *)
(* handle beyond NumModels is one the table does not know.  The selector   *)
(* is the record s: its state (selectedIndex, startIndex, availableModels, *)
(* isLoading, error, isCached, refreshing), its refs (mountedRef,          *)
(* initializedRef), the calls of loadModels still awaiting their result    *)
(* (inflight), the number of calls made so far (started), the call whose   *)
(* result availableModels holds (listFrom), the callbacks fired by the     *)
(* latest event (out) and that event (ev).                                 *)

NumModels == 12
MaxLoads == 3
VISIBLE_COUNT == 10
NoError == "null"
LoadFailed == "Failed to load models"

typedModels == [i \in 1..NumModels |-> i]

\* the currentModel prop: the last model of the table
currentModel == NumModels

\* availableModels: undefined, null or a set of handles
NotLoaded == [tag |-> "undefined", handles |-> {}]
Fallback == [tag |-> "null", handles |-> {}]
Loaded(handles) == [tag |-> "set", handles |-> handles]

\* the handles of a set in iteration order
RECURSIVE HandlesInOrder(_)
HandlesInOrder(handles) ==
    IF handles = {} THEN <<>>
    ELSE LET first == CHOOSE h \in handles : \A g \in handles : h <= g
         IN  <<first>> \o HandlesInOrder(handles \ {first})

\* one dynamic model for every available handle the table does not know
getDynamicModels(availableHandles, knownHandles) ==
    HandlesInOrder(availableHandles \ knownHandles)

filteredModels(availableModels) ==
    IF availableModels.tag = "undefined" THEN <<>>
    ELSE IF availableModels.tag = "null" THEN typedModels
    ELSE LET has(m) == m \in availableModels.handles
             knownModels == SelectSeq(typedModels, has)
             knownHandles == {knownModels[i] : i \in 1..Len(knownModels)}
         IN  knownModels \o getDynamicModels(availableModels.handles, knownHandles)

\* the 0-based index of the first model with the handle, or -1
findIndex(list, handle) ==
    IF \E i \in 1..Len(list) : list[i] = handle
    THEN (CHOOSE i \in 1..Len(list) :
              list[i] = handle /\ \A j \in 1..(i - 1) : list[j] # handle) - 1
    ELSE -1

\* the effect that sets the initial selection to the current model
initialSelectionEffect(s) ==
    LET list == filteredModels(s.availableModels)
        index == findIndex(list, currentModel)
    IN  IF ~s.initializedRef /\ Len(list) > 0
        THEN [s EXCEPT
                 !.selectedIndex = IF index >= 0 THEN index ELSE @,
                 !.startIndex = IF index >= 0 /\ index > VISIBLE_COUNT - 1
                                THEN Max(0, index - (VISIBLE_COUNT \div 2))
                                ELSE @,
                 !.initializedRef = TRUE]
        ELSE s

visibleModels(s) ==
    Slice(filteredModels(s.availableModels), s.startIndex,
          s.startIndex + VISIBLE_COUNT)

totalItems(s) == Len(filteredModels(s.availableModels))

\* loadModels up to its await: the call joins the calls in flight
loadModels(s, forceRefresh) ==
    LET s1 == IF forceRefresh /\ s.mountedRef
              THEN [s EXCEPT !.refreshing = TRUE, !.error = NoError]
              ELSE s
    IN  [s1 EXCEPT !.inflight = @ \cup {[id |-> s.started,
                                         forceRefresh |-> forceRefresh]},
                   !.started = @ + 1]

\* loadModels after its await, the load having produced handles; isFresh is
\* what the cache information said before the await
loadModelsResolved(s, load, handles, isFresh) ==
    LET s1 == [s EXCEPT !.inflight = @ \ {load}]
    IN  IF ~s.mountedRef THEN s1
        ELSE initialSelectionEffect(
                 [s1 EXCEPT !.availableModels = Loaded(handles),
                            !.isCached = ~load.forceRefresh /\ isFresh,
                            !.isLoading = FALSE,
                            !.refreshing = FALSE,
                            !.listFrom = load.id])

\* loadModels after its await, the load having failed
loadModelsRejected(s, load) ==
    LET s1 == [s EXCEPT !.inflight = @ \ {load}]
    IN  IF ~s.mountedRef THEN s1
        ELSE initialSelectionEffect(
                 [s1 EXCEPT !.error = LoadFailed,
                            !.isLoading = FALSE,
                            !.refreshing = FALSE,
                            !.availableModels = Fallback,
                            !.listFrom = load.id])

\* a key handler that consults the loading gate before anything else
selectorInputGateFirst(s, input, key) ==
    IF s.isLoading \/ s.refreshing \/ totalItems(s) = 0 THEN s
    ELSE IF "escape" \in key THEN [s EXCEPT !.out = <<"onCancel">>]
    ELSE s

\* the selector's key handler
selectorInput(s, input, key) ==
    IF "escape" \in key THEN [s EXCEPT !.out = <<"onCancel">>]
    ELSE IF input = "r" /\ ~s.refreshing THEN loadModels(s, TRUE)
    ELSE IF s.isLoading \/ s.refreshing \/ totalItems(s) = 0 THEN s
    ELSE IF "upArrow" \in key
    THEN LET nextIndex == Max(0, s.selectedIndex - 1)
         IN  [s EXCEPT !.selectedIndex = nextIndex,
                       !.startIndex = IF nextIndex < @ THEN nextIndex ELSE @]
    ELSE IF "downArrow" \in key
    THEN LET nextIndex == Min(totalItems(s) - 1, s.selectedIndex + 1)
         IN  [s EXCEPT !.selectedIndex = nextIndex,
                       !.startIndex = IF nextIndex >= @ + VISIBLE_COUNT
                                      THEN nextIndex - VISIBLE_COUNT + 1
                                      ELSE @]
    ELSE IF "return" \in key
    THEN LET list == filteredModels(s.availableModels)
         IN  IF s.selectedIndex + 1 \in 1..Len(list)
             THEN [s EXCEPT !.out = <<list[s.selectedIndex + 1]>>]
             ELSE s
    ELSE s

\* the selector when the state of an event is recorded
SelectorPre(s) ==
    [selectedIndex |-> s.selectedIndex, startIndex |-> s.startIndex,
     availableModels |-> s.availableModels, isLoading |-> s.isLoading,
     error |-> s.error, isCached |-> s.isCached, refreshing |-> s.refreshing,
     mountedRef |-> s.mountedRef, initializedRef |-> s.initializedRef,
     inflight |-> s.inflight]

SelectorEvent(s, kind, input, key, load) ==
    [kind |-> kind, input |-> input, key |-> key, load |-> load,
     pre |-> SelectorPre(s)]

\* the selector after it is mounted: both mount effects have run, and the
\* initial load is in flight
SelectorMount ==
    LET fresh == [selectedIndex |-> 0, startIndex |-> 0,
                  availableModels |-> NotLoaded, isLoading |-> TRUE,
                  error |-> NoError, isCached |-> FALSE, refreshing |-> FALSE,
                  mountedRef |-> TRUE, initializedRef |-> FALSE,
                  inflight |-> {}, started |-> 0, listFrom |-> Undefined,
                  out |-> <<>>]
        s == loadModels(fresh, FALSE)
    IN  [selectedIndex |-> s.selectedIndex, startIndex |-> s.startIndex,
         availableModels |-> s.availableModels, isLoading |-> s.isLoading,
         error |-> s.error, isCached |-> s.isCached,
         refreshing |-> s.refreshing, mountedRef |-> s.mountedRef,
         initializedRef |-> s.initializedRef, inflight |-> s.inflight,
         started |-> s.started, listFrom |-> s.listFrom, out |-> s.out,
         ev |-> SelectorEvent(fresh, "mount", "", {}, Undefined)]

----------------------------------------------------------------------------
(* Events.  Every event records itself and the refs it found in ev; React  *)
(* re-renders after the event, so displayValue follows the buffer.         *)

Pre ==
    [valueRef            |-> valueRef,
     caretOffsetRef      |-> caretOffsetRef,
     lastEmittedValueRef |-> lastEmittedValueRef,
     pasteRegistry       |-> pasteRegistry,
     value               |-> value,
     cursorPosition      |-> cursorPosition,
     displayValue        |-> displayValue]

\* the refs and callbacks an event leaves behind
CommitRefs(s, kind, input, key, cp) ==
    /\ valueRef' = s.valueRef
    /\ caretOffsetRef' = s.caretOffsetRef
    /\ lastEmittedValueRef' = s.lastEmittedValueRef
    /\ pasteRegistry' = s.pasteRegistry
    /\ out' = s.out
    /\ ev' = [kind |-> kind, input |-> input, key |-> key, cp |-> cp,
              fault |-> "none", pre |-> Pre]
    /\ UNCHANGED <<uncaught, mounted, focus, listeners, selector>>

\* an event followed by the re-render its setDisplayValue asked for
Commit(s, kind, input, key, cp) ==
    /\ CommitRefs(s, kind, input, key, cp)
    /\ displayValue' = s.valueRef

\* one call of the useInput handler
KeyEventOf(input, key, clip) ==
    LET s == useInputHandler(Cur, input, key, clip, displayValue)
    IN  /\ Commit(s, "key", input, key, Undefined)
        /\ UNCHANGED <<value, cursorPosition>>

\* one call of the useInput handler in which a collaborator fails: the
\* failing call comes before every write of the handler, so the refs keep
\* their values, and the exception leaves the handler
KeyFaultOf(input, key, clip, fault) ==
    /\ useInputHandlerThrows(input, key, clip, fault)
    /\ uncaught' = fault
    /\ out' = <<>>
    /\ ev' = [kind |-> "key", input |-> input, key |-> key, cp |-> Undefined,
              fault |-> fault, pre |-> Pre]
    /\ UNCHANGED <<valueRef, caretOffsetRef, lastEmittedValueRef, pasteRegistry,
                   displayValue, value, cursorPosition, mounted, focus, listeners,
                   selector>>

\* one call of handleRawInput
RawEventOf(sequence) ==
    LET s == handleRawInput(Cur, sequence)
    IN  /\ Commit(s, "raw", sequence, {}, Undefined)
        /\ UNCHANGED <<value, cursorPosition>>

\* the owner renders the component with value v and cursorPosition cp
RenderOf(v, cp) ==
    LET s == renderWithProps(Cur, v, cp)
    IN  /\ Commit(s, "render", v, {}, cp)
        /\ value' = v
        /\ cursorPosition' = cp

\* the values onChange was called with during the latest event
Changes(o) == {o[i].text : i \in {j \in 1..Len(o) : o[j].cb = "onChange"}}

\* the state after the component is mounted with value v and no
\* cursorPosition: the value effect finds value = lastEmittedValueRef
InitWith(v) ==
    /\ valueRef = v
    /\ caretOffsetRef = Len(v)
    /\ lastEmittedValueRef = v
    /\ value = v
    /\ cursorPosition = Undefined
    /\ displayValue = v
    /\ pasteRegistry = <<>>
    /\ out = <<>>
    /\ emitted = {}
    /\ typed = <<>>
    /\ uncaught = "none"
    /\ mounted = TRUE
    /\ focus = TRUE
    /\ listeners = <<TRUE>>
    /\ selector = SelectorMount
    /\ ev = [kind |-> "mount", input |-> v, key |-> {}, cp |-> Undefined,
             fault |-> "none",
             pre |-> [valueRef |-> v, caretOffsetRef |-> Len(v),
                      lastEmittedValueRef |-> v, pasteRegistry |-> <<>>,
                      value |-> v, cursorPosition |-> Undefined,
                      displayValue |-> v]]

\* all texts over the code units of A of length at most n
TextsOver(A, n) == UNION {[1..k -> A] : k \in 0..n}

----------------------------------------------------------------------------
(* Spec: editing with keys and raw sequences under an owner that re-renders *)

\* inputs that accompany a key descriptor
KeyInputs == {<<>>, <<97>>, <<32>>, <<DEL>>, <<BS>>}

\* key descriptors, as the set of their true flags
KeyFlagSets ==
    {{}, {"backspace"}, {"delete"}, {"leftArrow"}, {"rightArrow"}, {"return"}, {"ctrl"},
     {"meta"}, {"meta", "backspace"}}

\* raw sequences: DEL, BS, ctrl-W, ESC b, ESC f, an unknown CSI sequence
RawSequences ==
    {<<DEL>>, <<BS>>, <<CtrlW>>, <<ESC, 98>>, <<ESC, 102>>, <<ESC, 91, 65>>}

\* values the owner renders with
OwnerValues == {<<>>, <<97, 32>>}

\* cursorPosition props the owner renders with
OwnerCursorPositions == {Undefined, 1, MaxLen + 2}

\* the buffer may grow up to MaxLen; an event that does not lengthen it is
\* always enabled
WithinBound ==
    Len(valueRef') <= MaxLen \/ Len(valueRef') <= Len(valueRef)

KeyEvent ==
    \E input \in KeyInputs, key \in KeyFlagSets :
        /\ KeyEventOf(input, key, <<>>)
        /\ WithinBound
        /\ UNCHANGED <<emitted, typed>>

\* a paste shortcut (meta-v, ctrl-shift-v) that finds no image in the clipboard
ShortcutMiss ==
    \E key \in {{"meta"}, {"ctrl", "shift"}} :
        /\ KeyEventOf(<<118>>, key, <<>>)
        /\ UNCHANGED <<emitted, typed>>

RawEvent ==
    \E sequence \in RawSequences :
        /\ RawEventOf(sequence)
        /\ UNCHANGED <<emitted, typed>>

Render ==
    \E v \in OwnerValues, cp \in OwnerCursorPositions :
        /\ RenderOf(v, cp)
        /\ UNCHANGED <<emitted, typed>>

Init == InitWith(<<>>)

Next == KeyEvent \/ ShortcutMiss \/ RawEvent \/ Render

Spec == Init /\ [][Next]_vars

----------------------------------------------------------------------------
(* SpecEcho: local edits, with an owner that hands back values the engine  *)
(* emitted, in any order and at any later time                             *)

\* the values passed to onChange are recorded, MaxEmitted of them at most
RecordEmitted ==
    /\ emitted' = emitted \cup Changes(out')
    /\ Cardinality(emitted') <= MaxEmitted

EchoEdit ==
    \E input \in {<<97>>, <<32>>, <<DEL>>} :
        /\ KeyEventOf(input, {}, <<>>)
        /\ WithinBound
        /\ RecordEmitted
        /\ UNCHANGED typed

EchoPaste ==
    /\ KeyEventOf(<<98>>, {"isPasted"}, <<>>)
    /\ WithinBound
    /\ RecordEmitted
    /\ UNCHANGED typed

EchoWordDelete ==
    /\ RawEventOf(<<CtrlW>>)
    /\ RecordEmitted
    /\ UNCHANGED typed

EchoDeliver ==
    \E v \in emitted :
        /\ RenderOf(v, cursorPosition)
        /\ UNCHANGED <<emitted, typed>>

NextEcho == EchoEdit \/ EchoPaste \/ EchoWordDelete \/ EchoDeliver

SpecEcho == Init /\ [][NextEcho]_vars

----------------------------------------------------------------------------
(* SpecType: single characters typed into an empty buffer *)

TypedChars == {97, 32, 233}

TypeChar ==
    \E c \in TypedChars :
        /\ Len(typed) < MaxTyped
        /\ KeyEventOf(<<c>>, {}, <<>>)
        /\ typed' = Append(typed, c)
        /\ UNCHANGED emitted

NextType == TypeChar

SpecType == Init /\ [][NextType]_vars

----------------------------------------------------------------------------
(* SpecBatch: Character events that carry several code units *)

\* "ab", "a" DEL, DEL "a", BS BS, "a" LF "b", LF LF, TAB "a", "ab" DEL "c"
BatchPayloads ==
    {<<97, 98>>, <<97, DEL>>, <<DEL, 97>>, <<BS, BS>>, <<97, LF, 98>>, <<LF, LF>>,
     <<9, 97>>, <<97, 98, DEL, 99>>}

BatchType ==
    \E input \in BatchPayloads :
        /\ KeyEventOf(input, {}, <<>>)
        /\ WithinBound
        /\ UNCHANGED <<emitted, typed>>

BatchArrow ==
    \E key \in {{"leftArrow"}, {"rightArrow"}} :
        /\ KeyEventOf(<<>>, key, <<>>)
        /\ UNCHANGED <<emitted, typed>>

\* the owner re-renders with the same value and a cursorPosition
BatchNudge ==
    \E cp \in {1, MaxLen + 2} :
        /\ RenderOf(value, cp)
        /\ UNCHANGED <<emitted, typed>>

NextBatch == BatchType \/ BatchArrow \/ BatchNudge

SpecBatch == Init /\ [][NextBatch]_vars

----------------------------------------------------------------------------
(* SpecSubmit: typing and Enter when the re-render that setDisplayValue     *)
(* asked for comes after further input.  The handler given to useInput      *)
(* closes over the displayValue of the latest render.                       *)

\* one call of the useInput handler; the re-render is still to come
KeyEventBeforeRerenderOf(input, key) ==
    LET s == useInputHandler(Cur, input, key, <<>>, displayValue)
    IN  /\ CommitRefs(s, "key", input, key, Undefined)
        /\ UNCHANGED <<displayValue, value, cursorPosition>>

SubmitChars == {97, 98}

SubmitType ==
    \E c \in SubmitChars :
        /\ Len(valueRef) < MaxLen
        /\ KeyEventBeforeRerenderOf(<<c>>, {})
        /\ UNCHANGED <<emitted, typed>>

SubmitEdit ==
    \E key \in {{"backspace"}, {"leftArrow"}} :
        /\ KeyEventBeforeRerenderOf(<<>>, key)
        /\ UNCHANGED <<emitted, typed>>

SubmitEnter ==
    /\ KeyEventBeforeRerenderOf(<<CR>>, {"return"})
    /\ UNCHANGED <<emitted, typed>>

\* React renders with the displayValue that updateValue set
Rerender ==
    /\ displayValue' = valueRef
    /\ out' = <<>>
    /\ ev' = [kind |-> "rerender", input |-> valueRef, key |-> {}, cp |-> Undefined,
              fault |-> "none", pre |-> Pre]
    /\ UNCHANGED <<valueRef, caretOffsetRef, lastEmittedValueRef, pasteRegistry,
                   value, cursorPosition, emitted, typed, uncaught, mounted,
                   focus, listeners, selector>>

NextSubmit == SubmitType \/ SubmitEdit \/ SubmitEnter \/ Rerender

SpecSubmit == Init /\ [][NextSubmit]_vars

----------------------------------------------------------------------------
(* SpecFocus: the subscription of the raw listener over focus changes and   *)
(* unmount.  listeners is the list of the listeners on the "input" event,   *)
(* first called first; a listener is the focus its closure captured.        *)

\* a cleanup that leaves the listener subscribed
rawEffectCleanupLeak(ls) == ls

\* internal_eventEmitter.removeListener("input", handleRawInput): removes
\* the listener this effect prepended
rawEffectCleanup(ls) == IF ls = <<>> THEN ls ELSE Tail(ls)

\* internal_eventEmitter.prependListener("input", handleRawInput)
rawEffectSetup(ls, f) == <<f>> \o ls

\* handleRawInput of a render with focus f: if (!focus) return
rawListener(s, sequence, f) == IF f THEN handleRawInput(s, sequence) ELSE s

RECURSIVE emitInput(_, _, _)
\* the emitter calls every listener with the chunk
emitInput(s, ls, sequence) ==
    IF ls = <<>> THEN s
    ELSE emitInput(rawListener(s, sequence, Head(ls)), Tail(ls), sequence)

FocusSequences == {<<DEL>>, <<CtrlW>>, <<ESC, 98>>}

\* a chunk arrives on stdin, mounted or not
FocusRaw ==
    \E sequence \in FocusSequences :
        /\ Commit(emitInput(Cur, listeners, sequence), "raw", sequence, {}, Undefined)
        /\ UNCHANGED <<value, cursorPosition, emitted, typed>>

\* a useInput that calls the handler whatever isActive is
useInputAlwaysActive(s, input, key, clip, shown, isActive) ==
    useInputHandler(s, input, key, clip, shown)

\* useInput(handler, { isActive: focus }): the handler is called with a key
\* event only while isActive
useInput(s, input, key, clip, shown, isActive) ==
    IF isActive THEN useInputHandler(s, input, key, clip, shown) ELSE s

\* a key event arrives at a mounted component
KeyDeliveryOf(input, key) ==
    LET s == useInput(Cur, input, key, <<>>, displayValue, focus)
    IN  /\ mounted
        /\ Commit(s, "key", input, key, Undefined)
        /\ UNCHANGED <<value, cursorPosition>>

\* a character is typed
FocusType ==
    \E c \in {97, 32} :
        /\ Len(valueRef) < MaxLen
        /\ KeyDeliveryOf(<<c>>, {})
        /\ UNCHANGED <<emitted, typed>>

\* a paste, Enter, an arrow or Backspace arrives
FocusKey ==
    \E key \in {{"isPasted"}, {"return"}, {"leftArrow"}, {"backspace"}} :
        /\ Len(valueRef) < MaxLen \/ "isPasted" \notin key
        /\ KeyDeliveryOf(IF "isPasted" \in key THEN <<97>> ELSE <<>>, key)
        /\ UNCHANGED <<emitted, typed>>

\* the owner renders a mounted component with another value
FocusRender ==
    \E v \in OwnerValues :
        /\ mounted
        /\ RenderOf(v, Undefined)
        /\ UNCHANGED <<emitted, typed>>

\* the owner renders with another focus: the effect's cleanup runs, then
\* the effect
SetFocus ==
    /\ mounted
    /\ focus' = ~focus
    /\ listeners' = rawEffectSetup(rawEffectCleanup(listeners), ~focus)
    /\ out' = <<>>
    /\ ev' = [kind |-> "focus", input |-> <<>>, key |-> {}, cp |-> Undefined,
              fault |-> "none", pre |-> Pre]
    /\ UNCHANGED <<valueRef, caretOffsetRef, lastEmittedValueRef, pasteRegistry,
                   displayValue, value, cursorPosition, emitted, typed, uncaught,
                   mounted, selector>>

\* the component is unmounted: the effect's cleanup runs
Unmount ==
    /\ mounted
    /\ mounted' = FALSE
    /\ listeners' = rawEffectCleanup(listeners)
    /\ out' = <<>>
    /\ ev' = [kind |-> "unmount", input |-> <<>>, key |-> {}, cp |-> Undefined,
              fault |-> "none", pre |-> Pre]
    /\ UNCHANGED <<valueRef, caretOffsetRef, lastEmittedValueRef, pasteRegistry,
                   displayValue, value, cursorPosition, emitted, typed, uncaught,
                   focus, selector>>

NextFocus ==
    FocusRaw \/ FocusType \/ FocusKey \/ FocusRender \/ SetFocus \/ Unmount

SpecFocus == Init /\ [][NextFocus]_vars

----------------------------------------------------------------------------
(* SpecChunk: one chunk of stdin emitted on the "input" event.  The raw     *)
(* listener is prepended, so it is called first; Ink's own listener then    *)
(* decodes the same chunk into (input, key) and calls the useInput handler. *)

\* the (input, key) pairs Ink decodes a chunk into.  DEL is decoded as
\* key.delete or as key.backspace, depending on the version of Ink (the
\* comment at line 359: "Ink doesn't set key.backspace for DEL")
KeyDecodings(sequence) ==
    IF sequence = <<DEL>> THEN {<<(<<>>), {"delete"}>>, <<(<<>>), {"backspace"}>>}
    ELSE IF sequence = <<BS>> THEN {<<(<<>>), {"backspace"}>>}
    ELSE IF sequence = <<CtrlW>> THEN {<<(<<119>>), {"ctrl"}>>}
    ELSE IF sequence = <<ESC, DEL>>
        THEN {<<(<<>>), {"meta", "delete"}>>, <<(<<>>), {"meta", "backspace"}>>}
    ELSE IF sequence = <<ESC, 98>> THEN {<<(<<98>>), {"meta"}>>}
    ELSE IF sequence = <<ESC, 102>> THEN {<<(<<102>>), {"meta"}>>}
    ELSE IF sequence = <<ESC, 91, 49, 59, 51, 68>> THEN {<<(<<>>), {"leftArrow", "meta"}>>}
    ELSE IF sequence = <<ESC, 91, 49, 59, 51, 67>> THEN {<<(<<>>), {"rightArrow", "meta"}>>}
    ELSE {<<sequence, {}>>}

ChunkSequences ==
    {<<DEL>>, <<BS>>, <<CtrlW>>, <<ESC, DEL>>, <<ESC, 98>>, <<ESC, 102>>,
     <<ESC, 91, 49, 59, 51, 68>>, <<ESC, 91, 49, 59, 51, 67>>}

\* a chunk that the raw listener acts on: both listeners of "input" run
ChunkInput ==
    \E sequence \in ChunkSequences :
        \E d \in KeyDecodings(sequence) :
            LET s1 == emitInput(Cur, listeners, sequence)
                s2 == useInput(s1, d[1], d[2], <<>>, displayValue, focus)
            IN  /\ Commit(s2, "chunk", sequence, d[2], Undefined)
                /\ UNCHANGED <<value, cursorPosition, emitted, typed>>

\* a chunk with one printable character: the raw listener ignores it
ChunkType ==
    \E c \in {97, 32} :
        /\ Len(valueRef) < WordMaxLen
        /\ KeyEventOf(<<c>>, {}, <<>>)
        /\ UNCHANGED <<emitted, typed>>

\* a plain arrow: ESC [ D and ESC [ C match no word pattern
ChunkArrow ==
    \E key \in {{"leftArrow"}, {"rightArrow"}} :
        /\ KeyEventOf(<<>>, key, <<>>)
        /\ UNCHANGED <<emitted, typed>>

NextChunk == ChunkInput \/ ChunkType \/ ChunkArrow

SpecChunk == Init /\ [][NextChunk]_vars

----------------------------------------------------------------------------
(* SpecWord: word motion and word deletion on every short text *)

\* ESC b, ESC f, ESC [ 1 ; 3 D, ESC [ 1 ; 3 C, ESC [ 9 C, ctrl-W, ESC DEL,
\* ESC BS, ESC B, ESC [ A (matches no pattern)
WordSequences ==
    {<<ESC, 98>>, <<ESC, 102>>, <<ESC, 91, 49, 59, 51, 68>>,
     <<ESC, 91, 49, 59, 51, 67>>, <<ESC, 91, 57, 67>>, <<CtrlW>>, <<ESC, DEL>>,
     <<ESC, BS>>, <<ESC, 66>>, <<ESC, 91, 65>>}

WordRaw ==
    \E sequence \in WordSequences :
        /\ RawEventOf(sequence)
        /\ UNCHANGED <<emitted, typed>>

WordArrow ==
    \E key \in {{"leftArrow"}, {"rightArrow"}} :
        /\ KeyEventOf(<<>>, key, <<>>)
        /\ UNCHANGED <<emitted, typed>>

\* the owner re-renders with the same value and a cursorPosition
WordNudge ==
    \E cp \in 0..(WordMaxLen + 1) :
        /\ RenderOf(value, cp)
        /\ UNCHANGED <<emitted, typed>>

InitWord == \E v \in TextsOver({97, 32}, WordMaxLen) : InitWith(v)

NextWord == WordRaw \/ WordArrow \/ WordNudge

SpecWord == InitWord /\ [][NextWord]_vars

----------------------------------------------------------------------------
(* SpecPaste: pastes and multi-line insertions around the size thresholds *)

\* n lines of width code units each, separated by the line break br
Lines(n, width, br) ==
    LET unit == width + Len(br)
    IN  [i \in 1..(n * unit - Len(br)) |->
            IF (i - 1) % unit < width THEN 97 ELSE br[((i - 1) % unit) - width + 1]]

PastePayloads ==
    {Lines(1, PasteCharThreshold + 100, <<LF>>),
     Lines(1, PasteCharThreshold + 1, <<LF>>),
     Lines(1, PasteCharThreshold, <<LF>>),
     Lines(PasteLineThreshold + 1, 12, <<LF>>),
     Lines(PasteLineThreshold + 1, 1, <<CR, LF>>),
     Lines(PasteLineThreshold, 1, <<LF>>),
     <<97, CR, LF, 98>>,
     <<97, CR, 98>>,
     ImagePathPayload,
     <<>>}

\* inputs of Character events: typed text with line breaks in it
TypedPayloads ==
    {<<97>>, <<97, LF, 98>>, <<97, CR, LF, 98>>,
     Lines(PasteLineThreshold + 1, 1, <<LF>>)}

\* an exception that left the handler ends the input loop
PasteAllowed == Len(valueRef) <= MaxLen /\ uncaught = "none"

Paste ==
    \E payload \in PastePayloads :
        /\ PasteAllowed
        /\ KeyEventOf(payload, {"isPasted"}, <<>>)
        /\ UNCHANGED <<emitted, typed>>

PasteShortcut ==
    \E clip \in {<<>>, ImageToken}, key \in {{"meta"}, {"ctrl", "shift"}} :
        /\ PasteAllowed
        /\ KeyEventOf(<<118>>, key, clip)
        /\ UNCHANGED <<emitted, typed>>

TypeText ==
    \E payload \in TypedPayloads :
        /\ PasteAllowed
        /\ KeyEventOf(payload, {}, <<>>)
        /\ UNCHANGED <<emitted, typed>>

\* a paste during which the translator or the registry fails
PasteFault ==
    \E payload \in PastePayloads, fault \in Faults :
        /\ PasteAllowed
        /\ KeyFaultOf(payload, {"isPasted"}, <<>>, fault)
        /\ UNCHANGED <<emitted, typed>>

PasteArrow ==
    \E key \in {{"leftArrow"}, {"rightArrow"}} :
        /\ PasteAllowed
        /\ KeyEventOf(<<>>, key, <<>>)
        /\ UNCHANGED <<emitted, typed>>

\* the owner re-renders with the same value and a cursorPosition
PasteNudge ==
    \E cp \in {1, MaxLen + 2} :
        /\ PasteAllowed
        /\ RenderOf(value, cp)
        /\ UNCHANGED <<emitted, typed>>

InitPaste == \E v \in {<<>>, <<120, 121>>} : InitWith(v)

NextPaste ==
    Paste \/ PasteShortcut \/ TypeText \/ PasteFault \/ PasteArrow \/ PasteNudge

SpecPaste == InitPaste /\ [][NextPaste]_vars

----------------------------------------------------------------------------
(* SpecSelector: the model selector under key presses, load completions in *)
(* any order and its unmounting.                                           *)

\* what a load can produce: no handle, two known handles, or every known
\* handle and one the table does not know
LoadResults == {{}, {1, 2}, 1..(NumModels + 1)}

SelectorKeys ==
    {<<"", {"escape"}>>, <<"r", {}>>, <<"x", {}>>, <<"", {"upArrow"}>>,
     <<"", {"downArrow"}>>, <<"", {"return"}>>}

SelectorCommit(s, kind, input, key, load) ==
    /\ selector' = [s EXCEPT !.ev = SelectorEvent(selector, kind, input, key, load)]
    /\ UNCHANGED <<valueRef, caretOffsetRef, lastEmittedValueRef, value,
                   cursorPosition, displayValue, pasteRegistry, out, emitted,
                   typed, uncaught, mounted, focus, listeners, ev>>

\* a key press reaches the handler while the selector is mounted
SelectorKey ==
    \E k \in SelectorKeys :
        /\ selector.mountedRef
        /\ (k[1] = "r" /\ ~selector.refreshing) => selector.started < MaxLoads
        /\ SelectorCommit(selectorInput([selector EXCEPT !.out = <<>>], k[1], k[2]),
                          "key", k[1], k[2], Undefined)

\* a load in flight produces its handles
SelectorResolve ==
    \E load \in selector.inflight, handles \in LoadResults, isFresh \in BOOLEAN :
        SelectorCommit(loadModelsResolved([selector EXCEPT !.out = <<>>], load,
                                          handles, isFresh),
                       "resolved", "", {}, load.id)

\* a load in flight fails
SelectorReject ==
    \E load \in selector.inflight :
        SelectorCommit(loadModelsRejected([selector EXCEPT !.out = <<>>], load),
                       "rejected", "", {}, load.id)

\* the selector is unmounted: the cleanup of the mount effect runs
SelectorUnmount ==
    /\ selector.mountedRef
    /\ SelectorCommit([selector EXCEPT !.mountedRef = FALSE, !.out = <<>>],
                      "unmount", "", {}, Undefined)

NextSelector == SelectorKey \/ SelectorResolve \/ SelectorReject \/ SelectorUnmount

SpecSelector == InitWith(<<>>) /\ [][NextSelector]_vars

----------------------------------------------------------------------------
(* Properties *)

\* the text with ins spliced in at offset pos (at the end when pos is
\* beyond it)
InsertedAt(text, pos, ins) ==
    LET at == Min(pos, Len(text))
    IN  SubSeq(text, 1, at) \o ins \o SubSeq(text, at + 1, Len(text))

\* the text with the character before offset pos replaced by ins
ReplacedBefore(text, pos, ins) ==
    SubSeq(text, 1, pos - 1) \o ins \o SubSeq(text, pos + 1, Len(text))

\* line breaks + 1: every LF ends a line, and so does a CR with no LF after it
LineCountOf(text) ==
    Cardinality({i \in 1..Len(text) : text[i] = LF})
        + Cardinality({i \in 1..Len(text) :
                          text[i] = CR /\ (i = Len(text) \/ text[i + 1] # LF)})
        + 1

\* "[Pasted text #<id> +<n> lines]" for one-digit id and n
TokenText(id, n) ==
    <<91, 80, 97, 115, 116, 101, 100, 32, 116, 101, 120, 116, 32, 35, 48 + id,
      32, 43, 48 + n, 32, 108, 105, 110, 101, 115, 93>>

BufferUntouched ==
    /\ valueRef = ev.pre.valueRef
    /\ caretOffsetRef = ev.pre.caretOffsetRef

\* C1: echo safety.  When the owner delivers a value that the engine emitted
\* through onChange at some earlier time, the delivery changes neither the
\* buffer text nor the cursor.
EchoSafety ==
    (ev.kind = "render" /\ ev.input \in emitted) => BufferUntouched

\* C2: external value reconciliation.  A value supplied by the owner without
\* a cursor nudge leaves text and cursor untouched when it equals
\* lastEmittedValue, and otherwise becomes the buffer text with the cursor
\* at its end.
ExternalValueReconciliation ==
    (ev.kind = "render" /\ ev.cp = Undefined) =>
        IF ev.input = ev.pre.lastEmittedValueRef
        THEN BufferUntouched
        ELSE valueRef = ev.input /\ caretOffsetRef = Len(ev.input)

\* C3: cursor invariant.  In every reachable state the cursor lies between 0
\* and the length of the buffer text.
CursorInvariant ==
    0 <= caretOffsetRef /\ caretOffsetRef <= Len(valueRef)

SmallInsertionsInline ==
    (/\ ev.kind = "key"
     /\ ev.key \in {{}, {"isPasted"}}
     /\ ev.fault = "none"
     /\ Len(ev.input) > 0
     /\ Len(ev.input) <= 500
     /\ LineCountOf(ev.input) <= 5
     /\ ev.input # ImagePathPayload)
    => LET form == sanitizeForDisplay(ev.input)
           at   == Min(ev.pre.caretOffsetRef, Len(ev.pre.valueRef))
       IN  /\ pasteRegistry = ev.pre.pasteRegistry
           /\ valueRef = InsertedAt(ev.pre.valueRef, ev.pre.caretOffsetRef, form)
           /\ caretOffsetRef = at + Len(form)

\* C6: after any sequence of single-character insertions into an empty
\* buffer, the text is the characters in arrival order and the cursor is
\* at its end.
TypedTextIsConcatenation ==
    valueRef = typed /\ caretOffsetRef = Len(typed)

TypedThreeWitness ==
    typed = <<97, 32, 233>> /\ valueRef = <<97, 32, 233>> /\ caretOffsetRef = 3

\* the deliveries of a Backspace: the key flag alone, a raw BS or DEL code
\* in the payload, a lone raw byte on the raw listener
IsBackspaceDelivery(e) ==
    \/ e.kind = "key" /\ e.key = {"backspace"} /\ e.input = <<>>
    \/ e.kind = "key" /\ e.key \in {{}, {"backspace"}} /\ e.input \in {<<BS>>, <<DEL>>}
    \/ e.kind = "raw" /\ e.input \in {<<BS>>, <<DEL>>}

\* the delivery of a Delete: the key flag
IsDeleteDelivery(e) ==
    e.kind = "key" /\ e.key = {"delete"} /\ e.input = <<>>

IsComposedCorrection(e) ==
    /\ e.kind = "key"
    /\ e.key = {"backspace"}
    /\ Len(e.input) = 1
    /\ e.input[1] >= 32
    /\ e.input[1] # DEL

\* C8 as stated: a composed-input correction removes the character before
\* the cursor and inserts the replacement there, so that the length of the
\* buffer and the cursor are unchanged.
ComposedCorrectionKeepsLength ==
    IsComposedCorrection(ev) =>
        /\ Len(valueRef) = Len(ev.pre.valueRef)
        /\ caretOffsetRef = ev.pre.caretOffsetRef

\* C8 as amended: with the cursor inside the text and after its first
\* character the correction replaces the character before the cursor and
\* keeps length and cursor; with the cursor at 0 nothing is removed and
\* the replacement is inserted at 0.
ComposedCorrectionReplaces ==
    IsComposedCorrection(ev) =>
        LET c == ev.pre.caretOffsetRef
        IN  /\ (0 < c /\ c <= Len(ev.pre.valueRef)) =>
                  /\ valueRef = ReplacedBefore(ev.pre.valueRef, c, ev.input)
                  /\ Len(valueRef) = Len(ev.pre.valueRef)
                  /\ caretOffsetRef = c
            /\ c = 0 =>
                  /\ valueRef = ev.input \o ev.pre.valueRef
                  /\ caretOffsetRef = 1

\* "a " with the cursor after the "a", corrected to "  "
ComposedCorrectionWitness ==
    /\ IsComposedCorrection(ev)
    /\ ev.pre.valueRef = <<97, 32>>
    /\ ev.pre.caretOffsetRef = 1
    /\ ev.input = <<32>>
    /\ valueRef = <<32, 32>>
    /\ caretOffsetRef = 1

\* the raw sequences of the model that mean word-left and word-right
WordLeftSequences == {<<ESC, 98>>, <<ESC, 91, 49, 59, 51, 68>>}
WordRightSequences == {<<ESC, 102>>, <<ESC, 91, 49, 59, 51, 67>>, <<ESC, 91, 57, 67>>}

RECURSIVE StepLeftOver(_, _, _)
\* step left from p while on a character of the class
StepLeftOver(text, p, space) ==
    IF p >= 0 /\ (IF space THEN IsSpaceAt(text, p) ELSE IsNonSpaceAt(text, p))
    THEN StepLeftOver(text, p - 1, space)
    ELSE p

\* the algorithm as specified: 0 at 0; otherwise step left over whitespace,
\* then over non-whitespace, then one step right if on whitespace, and
\* clamp to >= 0
SpecifiedPreviousWordBoundary(text, pos) ==
    IF pos = 0 THEN 0
    ELSE LET a == StepLeftOver(text, pos - 1, TRUE)
             b == StepLeftOver(text, a, FALSE)
             c == IF IsSpaceAt(text, b) THEN b + 1 ELSE b
         IN  Max(0, c)

\* C9: previousWordBoundary(text, pos) is the result of the specified
\* algorithm for every text and 0 <= pos <= length(text), and it is the
\* index of the first character of the word preceding pos.
PreviousWordBoundaryAsSpecified ==
    (/\ ev.kind = "raw"
     /\ ev.input \in WordLeftSequences
     /\ 0 <= ev.pre.caretOffsetRef
     /\ ev.pre.caretOffsetRef <= Len(ev.pre.valueRef))
    => LET t == ev.pre.valueRef
           p == ev.pre.caretOffsetRef
       IN  /\ caretOffsetRef = SpecifiedPreviousWordBoundary(t, p)
           /\ (\E i \in 0..(p - 1) : IsNonSpaceAt(t, i))
                  => IsNonSpaceAt(t, caretOffsetRef)

WordDeleteSequences == {<<CtrlW>>, <<ESC, DEL>>, <<ESC, BS>>}

\* the number of onChange calls of the latest event
OnChangeCount == Cardinality({i \in 1..Len(out) : out[i].cb = "onChange"})

\* C11: a word-delete-backward sequence with b = previousWordBoundary(text,
\* cursor) changes nothing and emits nothing when b = cursor; otherwise the
\* text becomes text[0..b) + text[cursor..], the cursor becomes b and exactly
\* one onChange is fired.
WordDeleteBackRemovesSpan ==
    (ev.kind = "raw" /\ ev.input \in WordDeleteSequences)
    => LET t == ev.pre.valueRef
           p == ev.pre.caretOffsetRef
           b == SpecifiedPreviousWordBoundary(t, p)
       IN  IF b = p
           THEN BufferUntouched /\ out = <<>>
           ELSE /\ valueRef = Slice(t, 0, b) \o SliceFrom(t, p)
                /\ caretOffsetRef = b
                /\ OnChangeCount = 1

\* C12: whenever an external value change (a new value that differs from
\* lastEmittedValue) is accompanied by an explicit cursorPosition c, the
\* cursor after the change is c; an external value change without a
\* cursorPosition leaves the cursor at the end of the new text.
NudgeAccompaniesValueChange ==
    (/\ ev.kind = "render"
     /\ ev.input # ev.pre.value
     /\ ev.input # ev.pre.lastEmittedValueRef)
    => IF ev.cp # Undefined
       THEN caretOffsetRef = ev.cp
       ELSE caretOffsetRef = Len(ev.input)

\* C13: a Character event payload (no paste flag) of more than 5 characters
\* with more than 500 characters or more than 5 lines is stored in the
\* registry and a placeholder token is inserted at the cursor in its place.
UnflaggedLargeInsertionClassified ==
    (/\ ev.kind = "key"
     /\ ev.key = {}
     /\ Len(ev.input) > LargeInsertThreshold
     /\ (\/ Len(ev.input) > PasteCharThreshold
         \/ LineCountOf(ev.input) > PasteLineThreshold))
    => LET id    == Len(ev.pre.pasteRegistry) + 1
           token == TokenText(id, LineCountOf(ev.input))
       IN  /\ pasteRegistry = Append(ev.pre.pasteRegistry, ev.input)
           /\ valueRef = InsertedAt(ev.pre.valueRef, ev.pre.caretOffsetRef, token)

\* the offsets (from 1) of the line break characters of a text
BreakOffsets(text) == {i \in 1..Len(text) : text[i] \in {LF, CR}}

\* C14: a line break (LF, CR or CR LF) inside a Character event payload is
\* stored as the single glyph "↵" at the cursor, between the characters
\* typed before and after it, and the cursor advances by one for it.
LineBreakStoredAsGlyph ==
    (/\ ev.kind = "key"
     /\ ev.key = {}
     /\ LineCountOf(ev.input) = 2
     /\ \A i \in 1..Len(ev.input) : ev.input[i] >= 32 \/ i \in BreakOffsets(ev.input))
    => LET first  == CHOOSE i \in BreakOffsets(ev.input) :
                        \A j \in BreakOffsets(ev.input) : i <= j
           last   == CHOOSE i \in BreakOffsets(ev.input) :
                        \A j \in BreakOffsets(ev.input) : j <= i
           before == SubSeq(ev.input, 1, first - 1)
           after  == SubSeq(ev.input, last + 1, Len(ev.input))
           at     == Min(ev.pre.caretOffsetRef, Len(ev.pre.valueRef))
       IN  /\ valueRef = InsertedAt(ev.pre.valueRef, ev.pre.caretOffsetRef,
                                    before \o <<NewlineGlyph>> \o after)
           /\ caretOffsetRef = at + Len(before) + 1 + Len(after)

\* C15: when the translator throws or the registry's allocate fails while a
\* paste is handled, no exception leaves the input handler and the raw
\* pasted text, its line breaks replaced by the glyph, is inserted at the
\* cursor.
PasteFailureFallsBack ==
    (/\ ev.kind = "key"
     /\ "isPasted" \in ev.key
     /\ Len(ev.input) > 0
     /\ ev.fault \in Faults)
    => /\ uncaught = "none"
       /\ valueRef = InsertedAt(ev.pre.valueRef, ev.pre.caretOffsetRef,
                                sanitizeForDisplay(ev.input))

\* the offsets onCursorMove was called with during the latest event, in order
CursorMoves == SelectSeq(out, LAMBDA c : c.cb = "onCursorMove")

\* C16: every event that changes the cursor offset, whether a key, a raw
\* sequence or a render with an external value or cursorPosition, fires
\* onCursorMove, and the last offset reported is the new cursor offset.
CursorMoveReported ==
    caretOffsetRef # ev.pre.caretOffsetRef
    => /\ Len(CursorMoves) > 0
       /\ CursorMoves[Len(CursorMoves)].pos = caretOffsetRef

\* C17: Enter calls onSubmit exactly once, with the text of the buffer as
\* left by all input events handled before it, and changes neither the
\* text nor the cursor.
EnterSubmitsBuffer ==
    (ev.kind = "key" /\ "return" \in ev.key)
    => /\ Len(out) = 1
       /\ out[1].cb = "onSubmit"
       /\ out[1].text = ev.pre.valueRef
       /\ BufferUntouched

\* the calls of onChange during the latest event, in order
ChangeCalls == SelectSeq(out, LAMBDA c : c.cb = "onChange")

\* C18: every key event or raw sequence that changes the buffer text fires
\* onChange, the last of its calls carrying the new text, and at each call
\* of onChange(v) lastEmittedValue already is v.
OnChangeAfterLastEmitted ==
    /\ (ev.kind \in {"key", "raw"} /\ valueRef # ev.pre.valueRef)
           => /\ Len(ChangeCalls) > 0
              /\ ChangeCalls[Len(ChangeCalls)].text = valueRef
    /\ \A i \in 1..Len(ChangeCalls) : ChangeCalls[i].last = ChangeCalls[i].text

\* typing "a" into the empty buffer called onChange("a") once, with
\* lastEmittedValue already "a"
OnChangeWitness ==
    /\ ev.kind = "key"
    /\ ev.input = <<97>>
    /\ ev.pre.valueRef = <<>>
    /\ ev.pre.lastEmittedValueRef = <<>>
    /\ valueRef = <<97>>
    /\ Len(ChangeCalls) = 1
    /\ ChangeCalls[1].text = <<97>>
    /\ ChangeCalls[1].last = <<97>>

RawListenerRemoved ==
    /\ Len(listeners) <= 1
    /\ ~mounted => listeners = <<>>
    /\ (ev.kind = "raw" /\ ~mounted) => (BufferUntouched /\ out = <<>>)

\* DEL arrived after unmount with the cursor behind "a": nothing changed
RawAfterUnmountWitness ==
    /\ ~mounted
    /\ ev.kind = "raw"
    /\ ev.input = <<DEL>>
    /\ ev.pre.valueRef = <<97>>
    /\ ev.pre.caretOffsetRef = 1
    /\ valueRef = <<97>>
    /\ out = <<>>

\* C21: while focus is false no key event, paste or raw sequence changes
\* text or cursor or fires a callback; a changed external value that
\* differs from lastEmittedValue is still applied; a change of focus leaves
\* the buffer intact, and with focus true a typed character is inserted
\* again.
UnfocusedInputIgnored ==
    /\ (ev.kind \in {"key", "raw"} /\ ~focus) => (BufferUntouched /\ out = <<>>)
    /\ (/\ ev.kind = "render"
        /\ ~focus
        /\ ev.input # ev.pre.value
        /\ ev.input # ev.pre.lastEmittedValueRef) => valueRef = ev.input
    /\ ev.kind = "focus" => BufferUntouched
    /\ (ev.kind = "key" /\ focus /\ ev.key = {})
           => valueRef = InsertedAt(ev.pre.valueRef, ev.pre.caretOffsetRef, ev.input)

\* Backspace arrived behind "a" while focus was false: nothing changed
UnfocusedBackspaceWitness ==
    /\ mounted
    /\ ~focus
    /\ ev.kind = "key"
    /\ ev.key = {"backspace"}
    /\ ev.pre.valueRef = <<97>>
    /\ ev.pre.caretOffsetRef = 1
    /\ valueRef = <<97>>
    /\ out = <<>>

\* C24: a chunk that the raw listener acts on makes one edit only: onChange
\* is fired at most once; a lone BS or DEL byte with the cursor inside the
\* text removes exactly the character before the cursor; a word-move
\* sequence leaves the text alone and the cursor at the word boundary.
ChunkEditedOnce ==
    ev.kind = "chunk"
    => LET t == ev.pre.valueRef
           p == ev.pre.caretOffsetRef
       IN  /\ OnChangeCount <= 1
           /\ (ev.input \in {<<DEL>>, <<BS>>} /\ 0 < p /\ p <= Len(t))
                  => /\ valueRef = Slice(t, 0, p - 1) \o SliceFrom(t, p)
                     /\ caretOffsetRef = p - 1
           /\ ev.input \in WordLeftSequences
                  => /\ valueRef = t
                     /\ caretOffsetRef = findPreviousWordBoundary(t, p)
           /\ ev.input \in WordRightSequences
                  => /\ valueRef = t
                     /\ caretOffsetRef = findNextWordBoundary(t, p)

RECURSIVE StepRightOver(_, _, _)
\* step right from p while on a character of the class
StepRightOver(text, p, space) ==
    IF p < Len(text) /\ (IF space THEN IsSpaceAt(text, p) ELSE IsNonSpaceAt(text, p))
    THEN StepRightOver(text, p + 1, space)
    ELSE p

\* nextWordBoundary as specified: the length at or beyond the end; otherwise
\* past the run of non-whitespace and then past the run of whitespace
SpecifiedNextWordBoundary(text, pos) ==
    IF pos >= Len(text) THEN Len(text)
    ELSE StepRightOver(text, StepRightOver(text, pos, FALSE), TRUE)

\* the word-left and word-right sequences the listener recognises
RecognisedLeft ==
    {<<ESC, 98>>, <<ESC, 66>>} \cup
    {<<ESC, 91, d, 68>> : d \in {51, 52, 55, 56, 57}} \cup
    {<<ESC, 91, 49, 59, d, 68>> : d \in {51, 52, 55, 56, 57}}
RecognisedRight ==
    {<<ESC, 102>>, <<ESC, 70>>} \cup
    {<<ESC, 91, d, 67>> : d \in {51, 52, 55, 56, 57}} \cup
    {<<ESC, 91, 49, 59, d, 67>> : d \in {51, 52, 55, 56, 57}}

\* C25: a recognised word-left sequence sets the cursor to
\* previousWordBoundary(text, cursor), a recognised word-right sequence to
\* nextWordBoundary(text, cursor), both without changing the text or firing
\* onChange; an escape sequence that matches no known pattern changes
\* neither text nor cursor.
WordMotionAsSpecified ==
    (ev.kind = "raw" /\ Len(ev.input) > 0 /\ ev.input[1] = ESC)
    => LET t == ev.pre.valueRef
           p == ev.pre.caretOffsetRef
       IN  IF ev.input \in RecognisedLeft
           THEN /\ caretOffsetRef = SpecifiedPreviousWordBoundary(t, p)
                /\ valueRef = t
                /\ OnChangeCount = 0
           ELSE IF ev.input \in RecognisedRight
           THEN /\ caretOffsetRef = SpecifiedNextWordBoundary(t, p)
                /\ valueRef = t
                /\ OnChangeCount = 0
           ELSE IF ev.input \in WordDeleteSequences
           THEN TRUE
           ELSE BufferUntouched /\ out = <<>>

RECURSIVE PassFrom(_, _, _, _)
\* the pass as specified over the code points of input from index i on,
\* with the running position r: 8 and 127 delete the character before r
\* (if there is one) and step back, a code point >= 32 is inserted at r and
\* r advances, every other code point is skipped
PassFrom(text, r, input, i) ==
    IF i > Len(input) THEN [text |-> text, r |-> r]
    ELSE IF input[i] \in {BS, DEL}
    THEN PassFrom(IF 0 < r /\ r <= Len(text) THEN ReplacedBefore(text, r, <<>>) ELSE text,
                  IF r > 0 THEN r - 1 ELSE r, input, i + 1)
    ELSE IF input[i] >= 32
    THEN PassFrom(InsertedAt(text, r, <<input[i]>>), r + 1, input, i + 1)
    ELSE PassFrom(text, r, input, i + 1)

\* a Character event with several code units
IsBatch(e) == e.kind = "key" /\ e.key = {} /\ Len(e.input) >= 2

\* some code point of the input is 8, 127 or >= 32
Acts(input) == \E i \in 1..Len(input) : input[i] \in {BS, DEL} \/ input[i] >= 32

\* C26 as claimed: a multi-character Character event leaves the text of
\* the pass, fires exactly one onChange, which carries the final text, and
\* leaves the cursor at the final running position.
BatchPassEmitsOnce ==
    IsBatch(ev)
    => LET pass == PassFrom(ev.pre.valueRef, ev.pre.caretOffsetRef, ev.input, 1)
       IN  /\ valueRef = pass.text
           /\ caretOffsetRef = pass.r
           /\ Len(ChangeCalls) = 1
           /\ ChangeCalls[1].text = pass.text

\* C26: a multi-character Character event with a code point that is 8,
\* 127 or >= 32 leaves the text of the pass, fires exactly one onChange,
\* which carries the final text, and leaves the cursor at the final
\* running position, or at the end of the text when that position lies
\* beyond it; an event whose code points are all ignored changes nothing
\* and fires no callback.
BatchPassAtomic ==
    IsBatch(ev)
    => LET pass == PassFrom(ev.pre.valueRef, ev.pre.caretOffsetRef, ev.input, 1)
       IN  IF Acts(ev.input)
           THEN /\ valueRef = pass.text
                /\ caretOffsetRef = Min(pass.r, Len(pass.text))
                /\ Len(ChangeCalls) = 1
                /\ ChangeCalls[1].text = pass.text
           ELSE BufferUntouched /\ out = <<>>

\* "ab" DEL "c" typed into the empty buffer gave "ac" with one onChange
BatchPassWitness ==
    /\ IsBatch(ev)
    /\ ev.input = <<97, 98, DEL, 99>>
    /\ ev.pre.valueRef = <<>>
    /\ valueRef = <<97, 99>>
    /\ caretOffsetRef = 2
    /\ Len(ChangeCalls) = 1
    /\ ChangeCalls[1].text = <<97, 99>>

\* C27: when the owner renders a new value that differs from the buffer's
\* text, and the buffer still holds the value the owner rendered before (no
\* local edit since), the buffer text becomes the new value.
ExternalResetTakesEffect ==
    (/\ ev.kind = "render"
     /\ ev.input # ev.pre.value
     /\ ev.input # ev.pre.valueRef
     /\ ev.pre.valueRef = ev.pre.value)
    => valueRef = ev.input

\* C28: an event that leaves the buffer text as it was (a backspace code
\* point at cursor 0, a word-delete with nothing to delete, a cursor move, a
\* render with an external value) fires no onChange.
OnChangeOnlyOnTextChange ==
    /\ (ev.kind \in {"key", "raw"} /\ valueRef = ev.pre.valueRef) => OnChangeCount = 0
    /\ ev.kind = "render" => OnChangeCount = 0


\* the selector's state now, as an event records it
SelectorNow == SelectorPre(selector)

\* the latest selector event is a press of the key
SelectorPressed(key) == selector.ev.kind = "key" /\ key \in selector.ev.key

\* C22: a press of Escape calls onCancel and does nothing else, whatever the
\* selector's state: while the initial load is in progress, while a refresh
\* is in progress and while the list is empty
EscapeAlwaysCancels ==
    SelectorPressed("escape") =>
        /\ selector.out = <<"onCancel">>
        /\ SelectorNow = selector.ev.pre

\* Escape was pressed during the initial load, with a refresh in progress
\* and nothing listed
EscapeWhileLoadingWitness ==
    /\ SelectorPressed("escape")
    /\ selector.ev.pre.isLoading
    /\ selector.ev.pre.refreshing
    /\ filteredModels(selector.ev.pre.availableModels) = <<>>
    /\ selector.out = <<"onCancel">>

\* the forced refreshes among a set of loads
Forced(loads) == {load \in loads : load.forceRefresh}

\* C23: a press of r during the initial load starts a forced refresh, and at
\* most one forced refresh is in flight at any time
SingleForcedRefresh ==
    /\ (/\ selector.ev.kind = "key"
        /\ selector.ev.input = "r"
        /\ selector.ev.pre.isLoading
        /\ ~selector.ev.pre.refreshing)
       => Cardinality(Forced(selector.inflight))
              = Cardinality(Forced(selector.ev.pre.inflight)) + 1
    /\ Cardinality(Forced(selector.inflight)) <= 1

\* C29: whenever a list is loaded and not empty, the selection is one of its
\* models and lies in the window of VISIBLE_COUNT models, and a press of
\* Enter the gate lets through calls onSelect with the id of the selection
SelectionInWindow ==
    LET list == filteredModels(selector.availableModels)
        before == filteredModels(selector.ev.pre.availableModels)
    IN  /\ Len(list) > 0 =>
            /\ selector.selectedIndex \in 0..(Len(list) - 1)
            /\ selector.startIndex <= selector.selectedIndex
            /\ selector.selectedIndex < selector.startIndex + VISIBLE_COUNT
        /\ (/\ SelectorPressed("return")
            /\ ~selector.ev.pre.isLoading
            /\ ~selector.ev.pre.refreshing
            /\ Len(before) > 0)
           => /\ selector.ev.pre.selectedIndex < Len(before)
              /\ selector.out = <<before[selector.ev.pre.selectedIndex + 1]>>

\* the latest selector event is the completion of a load
LoadCompleted == selector.ev.kind \in {"resolved", "rejected"}

\* C30: under any interleaving of load completions the warning is shown only
\* with the fallback list, the list shown is that of the most recently
\* started load once that load has completed, the arrows and Enter do
\* nothing while isLoading or refreshing is set, and a completion after the
\* unmount changes no state
LoadStateConsistent ==
    /\ selector.error # NoError => selector.availableModels = Fallback
    /\ (/\ selector.mountedRef
        /\ selector.listFrom # Undefined
        /\ \A load \in selector.inflight : load.id # selector.started - 1)
       => selector.listFrom = selector.started - 1
    /\ (/\ selector.ev.kind = "key"
        /\ selector.ev.key \cap {"upArrow", "downArrow", "return"} # {}
        /\ selector.ev.pre.isLoading \/ selector.ev.pre.refreshing)
       => /\ selector.out = <<>>
          /\ SelectorNow = selector.ev.pre
    /\ (LoadCompleted /\ ~selector.ev.pre.mountedRef)
       => [SelectorNow EXCEPT !.inflight = {}]
              = [selector.ev.pre EXCEPT !.inflight = {}]


============================================================================
